---- MODULE Spec2Model ----
(***************************************************************************)
(* A model of solconnect (src/src/main.rs): the transaction-graph builder  *)
(* build_transaction_graph, the bounded breadth-first path search          *)
(* find_paths, the paginated get_transaction_history and the driver main.  *)
(*                                                                         *)
(* SpecBuild runs build_transaction_graph over a sequence of JSON          *)
(* transaction records, one (sender, receiver) pair per step.              *)
(* SpecFind runs find_paths over a graph that build_transaction_graph can  *)
(* return, one dequeue or one neighbour of the for loop per step; the      *)
(* HashSet iteration order is a nondeterministic choice.                   *)
(* SpecFindTwice calls find_paths a second time with the same arguments,   *)
(* SpecFindLive adds weak fairness of its steps.                           *)
(* SpecHistory runs get_transaction_history, one request per step, against *)
(* a node with more pages than the ceiling; SpecMain runs main from the    *)
(* command line to its return, with every response the RPC node can give.  *)
(***************************************************************************)
EXTENDS Integers, Sequences, FiniteSets, TLC

VARIABLES
    transactions,   \* build_transaction_graph: the &[Value] argument
    txIdx,          \* position of the outer for loop (line 107)
    rcvIdx,         \* position of the inner for loop (line 116)
    graph,          \* HashMap<String, HashSet<String>>: keys -> neighbour sets
    pc,             \* control point, from "main" to "exit"
    start,          \* find_paths arguments
    end,
    max_depth,
    queue,          \* VecDeque<(String, Vec<String>)>
    paths,          \* Vec<Vec<String>>
    visited,        \* HashSet<String>
    node,           \* the pair popped at line 138
    path,
    next_nodes,     \* neighbours the for loop of line 149 has not yet yielded
    enqueued,       \* history: every node pushed on the queue, in order
    previous,       \* history: the outcome of an earlier call with the same
                    \* arguments, if there was one
    address1,       \* main: the two command-line arguments
    address2,
    server,         \* environment: what the RPC node holds for an address
    call,           \* which get_transaction_history call of main runs: 1, 2
    signatures,     \* get_transaction_history: its locals (lines 23-27)
    before,
    iteration,
    responses,      \* history: the kind of each response of the running call
    signatures1,    \* main: the result of the first call (line 180)
    all_signatures, \* main: line 183
    sigIdx,         \* main: position of the for loop of line 191
    all_transactions,   \* main: line 190
    outcomes,       \* history: each detail request, with what came back
    fetched,        \* history: the signatures the two calls collected
    repeated,       \* history: those collected more than once
    exit            \* main's result: "running", "Ok", "Err"

vars == <<transactions, txIdx, rcvIdx, graph, pc, start, end, max_depth,
          queue, paths, visited, node, path, next_nodes, enqueued, previous,
          address1, address2, server, call, signatures, before, iteration,
          responses, signatures1, all_signatures, sigIdx, all_transactions,
          outcomes, fetched, repeated, exit>>

buildVars == <<transactions, txIdx, rcvIdx>>
findArgs == <<start, end, max_depth>>
findVars == <<start, end, max_depth, queue, paths, visited, node, path,
              next_nodes, enqueued, previous>>
historyVars == <<call, signatures, before, iteration, responses>>
mainVars == <<address1, address2, server, call, signatures, before, iteration,
              responses, signatures1, all_signatures, sigIdx,
              all_transactions, outcomes, fetched, repeated, exit>>

(***************************************************************************)
(* Bounds of the model.                                                    *)
(***************************************************************************)
NumAddr == 3        \* addresses the bounded inputs are drawn from
MaxKeys == 3        \* longest accountKeys array of a bounded record
MaxTx == 2          \* longest bounded sequence of records
MaxDepth == 3       \* largest max_depth of a bounded search
NumSig == 2         \* signatures the node's pages are drawn from
MaxPage == 2        \* most entries of a bounded signature page
MaxPages == 1       \* most non-empty pages the node holds for an address

AddrSeq == <<"A", "B", "C", "D", "E", "X", "Y">>
Addr == {AddrSeq[i] : i \in 1..NumAddr}
NoAddr == "-"

Range(s) == {s[i] : i \in 1..Len(s)}
SeqsUpTo(S, n) == UNION {[1..k -> S] : k \in 0..n}

(***************************************************************************)
(* serde_json::Value, as far as build_transaction_graph looks into it.     *)
(* An object is its set of <<field, value>> pairs; an Option is a set of   *)
(* at most one element.                                                    *)
(***************************************************************************)
JNull == [type |-> "null"]
JNum == [type |-> "number"]
JStr(s) == [type |-> "string", str |-> s]
JArr(items) == [type |-> "array", items |-> items]
JObj(fields) == [type |-> "object", fields |-> fields]

\* Value::get(key): None unless the value is an object holding the key
Get(v, key) ==
    IF v.type = "object" THEN {f[2] : f \in {g \in v.fields : g[1] = key}} ELSE {}

\* Value::as_array
AsArray(v) == IF v.type = "array" THEN {v.items} ELSE {}

\* Value::as_str
AsStr(v) == IF v.type = "string" THEN {v.str} ELSE {}

\* lines 108-110: transaction.get("transaction"), then get("message"), then
\* get("accountKeys").and_then(as_array); None as soon as one step is None
AccountKeys(transaction) ==
    LET infos == Get(transaction, "transaction")
        messages == UNION {Get(info, "message") : info \in infos}
        keys == UNION {Get(message, "accountKeys") : message \in messages}
    IN UNION {AsArray(k) : k \in keys}

\* lines 111-113: iter().filter_map(as_str).collect(), the keys that are
\* strings, in order
RECURSIVE Accounts(_)
Accounts(account_keys) ==
    IF account_keys = <<>> THEN <<>>
    ELSE LET s == AsStr(Head(account_keys))
             rest == Accounts(Tail(account_keys))
         IN IF s = {} THEN rest ELSE <<CHOOSE x \in s : TRUE>> \o rest

\* a variant of Sender: the last account instead of the first
SenderLast(accounts) == accounts[Len(accounts)]

\* line 115: accounts.first()
Sender(accounts) == Head(accounts)

\* a variant of Receivers: the loop without skip(1)
ReceiversNoSkip(accounts) == accounts

\* line 116: accounts.iter().skip(1)
Receivers(accounts) == SubSeq(accounts, 2, Len(accounts))

\* a variant of EntryInsert: the neighbour set is replaced, not extended
EntryOverwrite(g, k, v) == [x \in DOMAIN g \cup {k} |-> IF x = k THEN {v} ELSE g[x]]

\* graph.entry(k).or_insert_with(HashSet::new).insert(v)
EntryInsert(g, k, v) ==
    [x \in DOMAIN g \cup {k} |->
        IF x = k THEN (IF k \in DOMAIN g THEN g[k] ELSE {}) \cup {v} ELSE g[x]]

\* a variant of InsertEdge: only the sender's entry is updated
InsertEdgeOneWay(g, sender, receiver) == EntryInsert(g, sender, receiver)

\* lines 117-118: both directions of one (sender, receiver) pair
InsertEdge(g, sender, receiver) ==
    EntryInsert(EntryInsert(g, sender, receiver), receiver, sender)

EmptyGraph == [x \in {} |-> {}]

\* lines 115-123 for one record's accounts
RECURSIVE InsertReceivers(_, _, _)
InsertReceivers(g, sender, receivers) ==
    IF receivers = <<>> THEN g
    ELSE InsertReceivers(InsertEdge(g, sender, Head(receivers)), sender,
                         Tail(receivers))

\* lines 108-126: the body of the outer loop for one record
ProcessRecord(g, transaction) ==
    LET keys == AccountKeys(transaction) IN
    IF keys = {} THEN g
    ELSE LET accounts == Accounts(CHOOSE k \in keys : TRUE) IN
         IF accounts = <<>> THEN g
         ELSE InsertReceivers(g, Sender(accounts), Receivers(accounts))

\* build_transaction_graph as a function of its argument
RECURSIVE BuildFrom(_, _)
BuildFrom(g, txs) ==
    IF txs = <<>> THEN g ELSE BuildFrom(ProcessRecord(g, Head(txs)), Tail(txs))

BuildGraph(txs) == BuildFrom(EmptyGraph, txs)

(***************************************************************************)
(* Inputs of build_transaction_graph.                                      *)
(***************************************************************************)
\* a record whose message carries the given accountKeys value
TxWith(keysValue) ==
    JObj({<<"transaction",
            JObj({<<"message", JObj({<<"accountKeys", keysValue>>})>>})>>})

\* a well-formed record with the given participant addresses
Tx(addrs) == TxWith(JArr([i \in 1..Len(addrs) |-> JStr(addrs[i])]))

KeyValues == {JStr(a) : a \in Addr} \cup {JNum}

MalformedRecords ==
    { JNull,                                                \* not an object
      JObj({}),                                             \* no transaction
      JObj({<<"transaction", JObj({})>>}),                  \* no message
      JObj({<<"transaction", JObj({<<"message", JObj({})>>})>>}),  \* no accountKeys
      TxWith(JStr("A")) }                                   \* accountKeys not an array

TxRecords == MalformedRecords \cup {TxWith(JArr(k)) : k \in SeqsUpTo(KeyValues, MaxKeys)}

ScenarioStar == <<Tx(<<"A", "B", "C">>)>>
ScenarioChain4 == <<Tx(<<"A", "B">>), Tx(<<"B", "C">>), Tx(<<"C", "D">>)>>
ScenarioChain5 == ScenarioChain4 \o <<Tx(<<"D", "E">>)>>
ScenarioSplit == <<Tx(<<"A", "B">>), Tx(<<"X", "Y">>)>>
ScenarioDiamond == <<Tx(<<"A", "B", "C">>), Tx(<<"D", "B", "C">>)>>
ScenarioDetour == <<Tx(<<"A", "B", "C">>), Tx(<<"D", "B", "E">>), Tx(<<"C", "E">>)>>

BuildInputs ==
    SeqsUpTo(TxRecords, MaxTx) \cup {ScenarioStar, ScenarioChain4, ScenarioSplit}

(***************************************************************************)
(* build_transaction_graph, one step of its loops at a time.               *)
(***************************************************************************)
FindIdle ==
    /\ start = NoAddr /\ end = NoAddr /\ max_depth = 0
    /\ queue = <<>> /\ paths = <<>> /\ visited = {}
    /\ node = NoAddr /\ path = <<>> /\ next_nodes = {} /\ enqueued = <<>>
    /\ previous = <<>>

\* main is not running: its variables rest
MainIdle ==
    /\ address1 = NoAddr /\ address2 = NoAddr
    /\ server = [sigs |-> {}, pages |-> 0]
    /\ call = 0 /\ signatures = <<>> /\ before = {} /\ iteration = 0
    /\ responses = <<>> /\ signatures1 = <<>> /\ all_signatures = <<>>
    /\ sigIdx = 1 /\ all_transactions = <<>> /\ outcomes = <<>>
    /\ fetched = {} /\ repeated = {} /\ exit = "running"

InitBuild ==
    /\ transactions \in BuildInputs
    /\ txIdx = 1 /\ rcvIdx = 1
    /\ graph = EmptyGraph          \* line 105
    /\ pc = "build"
    /\ FindIdle /\ MainIdle

CurTx == transactions[txIdx]
CurKeys == AccountKeys(CurTx)
CurAccounts == Accounts(CHOOSE k \in CurKeys : TRUE)

\* lines 108-110 fail: one of the `if let Some` does not match
BuildSkipRecord ==
    /\ pc = "build" /\ txIdx <= Len(transactions)
    /\ CurKeys = {}
    /\ txIdx' = txIdx + 1 /\ rcvIdx' = 1
    /\ UNCHANGED <<transactions, graph, pc, findVars, mainVars>>

\* lines 116-118: one iteration of the inner loop
BuildInsertEdge ==
    /\ pc = "build" /\ txIdx <= Len(transactions)
    /\ CurKeys # {}
    /\ CurAccounts # <<>>
    /\ rcvIdx <= Len(Receivers(CurAccounts))
    /\ graph' = InsertEdge(graph, Sender(CurAccounts), Receivers(CurAccounts)[rcvIdx])
    /\ rcvIdx' = rcvIdx + 1
    /\ UNCHANGED <<transactions, txIdx, pc, findVars, mainVars>>

\* line 115 finds no first account, or the inner loop is exhausted
BuildEndRecord ==
    /\ pc = "build" /\ txIdx <= Len(transactions)
    /\ CurKeys # {}
    /\ \/ CurAccounts = <<>>
       \/ /\ CurAccounts # <<>>
          /\ rcvIdx > Len(Receivers(CurAccounts))
    /\ txIdx' = txIdx + 1 /\ rcvIdx' = 1
    /\ UNCHANGED <<transactions, graph, pc, findVars, mainVars>>

\* line 129
BuildReturn ==
    /\ pc = "build" /\ txIdx > Len(transactions)
    /\ pc' = "built"
    /\ UNCHANGED <<transactions, txIdx, rcvIdx, graph, findVars, mainVars>>

NextBuild == BuildSkipRecord \/ BuildInsertEdge \/ BuildEndRecord \/ BuildReturn

SpecBuild == InitBuild /\ [][NextBuild]_vars

(***************************************************************************)
(* find_paths: its inputs.                                                 *)
(***************************************************************************)
\* the graph with the given undirected edges, each a set {a, b} or {a}
GraphOfEdges(E) ==
    [a \in UNION E |-> {b \in UNION E : {a, b} \in E}]

\* the graphs build_transaction_graph can return over Addr: symmetric, and
\* every key has a neighbour
BuiltGraphs == {GraphOfEdges(E) : E \in SUBSET {{a, b} : a \in Addr, b \in Addr}}

FindCall(g, s, e, d) == [graph |-> g, start |-> s, end |-> e, max_depth |-> d]

FindInputs ==
    {FindCall(g, s, e, d) : g \in BuiltGraphs, s \in Addr, e \in Addr, d \in 0..MaxDepth}
    \cup { FindCall(BuildGraph(ScenarioChain4), "A", "D", 10),
           FindCall(BuildGraph(ScenarioChain5), "A", "E", 3),
           FindCall(BuildGraph(ScenarioSplit), "A", "Y", 10),
           FindCall(BuildGraph(ScenarioDetour), "A", "E", 10),
           FindCall(BuildGraph(ScenarioDiamond), "A", "D", 10) }

(***************************************************************************)
(* find_paths, one dequeue or one neighbour at a time.                     *)
(***************************************************************************)
\* a variant of InitPath: the path is not seeded with the start node
InitPathEmpty(s) == <<>>

\* line 134: the path the start node is queued with
InitPath(s) == <<s>>

\* a variant of PopFront: the front is read but not removed
PeekFront(q) == [item |-> Head(q), rest |-> q]

\* a variant of PopFront: the queue used as a stack
PopBack(q) == [item |-> q[Len(q)], rest |-> SubSeq(q, 1, Len(q) - 1)]

\* line 138: queue.pop_front()
PopFront(q) == [item |-> Head(q), rest |-> Tail(q)]

\* variants of DepthExceeded: one node too many allowed, one too few, and
\* no limit at all
DepthExceededLate(p, d) == Len(p) > d + 1
DepthExceededEarly(p, d) == Len(p) >= d
DepthNeverExceeded(p, d) == FALSE

\* line 139: path.len() > max_depth
DepthExceeded(p, d) == Len(p) > d

\* line 143: node == end
IsEnd(n, e) == n = e

\* a variant of IsVisited: the visited set is not consulted
NeverVisited(v, n) == FALSE

\* line 150: visited.contains(next_node)
IsVisited(v, n) == n \in v

\* a variant of NewPath: the neighbour is queued with its parent's path
NewPathParent(p, n) == p

\* lines 151-152: new_path = path.clone(); new_path.push(next_node)
NewPath(p, n) == Append(p, n)

InitFind ==
    /\ \E c \in FindInputs :
          /\ graph = c.graph /\ start = c.start /\ end = c.end
          /\ max_depth = c.max_depth
          /\ queue = <<[node |-> c.start, path |-> InitPath(c.start)]>>  \* line 134
          /\ enqueued = <<c.start>>
    /\ paths = <<>>                  \* line 135
    /\ visited = {}                  \* line 136
    /\ node = NoAddr /\ path = <<>> /\ next_nodes = {}
    /\ previous = <<>>
    /\ pc = "loop"
    /\ transactions = <<>> /\ txIdx = 1 /\ rcvIdx = 1
    /\ MainIdle

Popped == PopFront(queue).item

\* lines 138-141: a popped path longer than max_depth is dropped
FindDepthExceeded ==
    /\ pc = "loop" /\ queue # <<>>
    /\ DepthExceeded(Popped.path, max_depth)
    /\ queue' = PopFront(queue).rest
    /\ node' = Popped.node /\ path' = Popped.path
    /\ UNCHANGED <<buildVars, graph, pc, findArgs, previous, mainVars, paths, visited, next_nodes, enqueued>>

\* lines 143-146: the popped node is end
FindMatch ==
    /\ pc = "loop" /\ queue # <<>>
    /\ ~DepthExceeded(Popped.path, max_depth)
    /\ IsEnd(Popped.node, end)
    /\ queue' = PopFront(queue).rest
    /\ node' = Popped.node /\ path' = Popped.path
    /\ paths' = Append(paths, Popped.path)
    /\ UNCHANGED <<buildVars, graph, pc, findArgs, previous, mainVars, visited, next_nodes, enqueued>>

\* line 148: graph.get(&node) is Some, the for loop starts
FindExpand ==
    /\ pc = "loop" /\ queue # <<>>
    /\ ~DepthExceeded(Popped.path, max_depth)
    /\ ~IsEnd(Popped.node, end)
    /\ Popped.node \in DOMAIN graph
    /\ queue' = PopFront(queue).rest
    /\ node' = Popped.node /\ path' = Popped.path
    /\ next_nodes' = graph[Popped.node]
    /\ pc' = "expand"
    /\ UNCHANGED <<buildVars, graph, findArgs, previous, mainVars, paths, visited, enqueued>>

\* line 148: graph.get(&node) is None
FindNoEntry ==
    /\ pc = "loop" /\ queue # <<>>
    /\ ~DepthExceeded(Popped.path, max_depth)
    /\ ~IsEnd(Popped.node, end)
    /\ Popped.node \notin DOMAIN graph
    /\ queue' = PopFront(queue).rest
    /\ node' = Popped.node /\ path' = Popped.path
    /\ UNCHANGED <<buildVars, graph, pc, findArgs, previous, mainVars, paths, visited, next_nodes, enqueued>>

\* lines 149-155: the set yields a neighbour not yet visited
FindPush ==
    /\ pc = "expand"
    /\ \E next_node \in next_nodes :
          /\ ~IsVisited(visited, next_node)
          /\ queue' = Append(queue, [node |-> next_node, path |-> NewPath(path, next_node)])
          /\ visited' = visited \cup {next_node}
          /\ enqueued' = Append(enqueued, next_node)
          /\ next_nodes' = next_nodes \ {next_node}
    /\ UNCHANGED <<buildVars, graph, pc, findArgs, previous, mainVars, paths, node, path>>

\* lines 149-150: the set yields neighbours already visited; the loop body
\* does nothing for them, wherever the iteration order places them, so they
\* are passed over together
FindSkipVisited ==
    /\ pc = "expand"
    /\ \E next_node \in next_nodes : IsVisited(visited, next_node)
    /\ next_nodes' = {n \in next_nodes : ~IsVisited(visited, n)}
    /\ UNCHANGED <<buildVars, graph, pc, findArgs, previous, mainVars, queue, paths, visited, node, path,
                   enqueued>>

\* line 156: the for loop is exhausted
FindEndExpand ==
    /\ pc = "expand" /\ next_nodes = {}
    /\ pc' = "loop"
    /\ UNCHANGED <<buildVars, graph, findVars, mainVars>>

\* lines 138, 160: the queue is empty, paths is returned
FindReturn ==
    /\ pc = "loop" /\ queue = <<>>
    /\ pc' = "done"
    /\ UNCHANGED <<buildVars, graph, findVars, mainVars>>

NextFind ==
    \/ FindDepthExceeded \/ FindMatch \/ FindExpand \/ FindNoEntry
    \/ FindPush \/ FindSkipVisited \/ FindEndExpand \/ FindReturn

SpecFind == InitFind /\ [][NextFind]_vars

\* lines 132-136 again: find_paths is called a second time with the same
\* arguments, the outcome of the first call being kept for comparison
FindAgain ==
    /\ pc = "done" /\ previous = <<>>
    /\ previous' = <<[paths |-> paths, order |-> enqueued]>>
    /\ queue' = <<[node |-> start, path |-> InitPath(start)]>>
    /\ enqueued' = <<start>>
    /\ paths' = <<>> /\ visited' = {}
    /\ node' = NoAddr /\ path' = <<>> /\ next_nodes' = {}
    /\ pc' = "loop"
    /\ UNCHANGED <<buildVars, graph, findArgs, mainVars>>

NextFindTwice == NextFind \/ FindAgain

SpecFindTwice == InitFind /\ [][NextFindTwice]_vars

\* find_paths is straight-line sequential code: it takes its next step
\* whenever it has one
SpecFindLive == SpecFind /\ WF_vars(NextFind)

(***************************************************************************)
(* get_transaction_history, one request and its response per step.         *)
(* Signatures are numbers, ordered as the program's strings are.           *)
(***************************************************************************)
limit == 1000               \* line 25
max_iterations == 10        \* line 26
main_max_depth == 50        \* line 210

Sig == 1..NumSig

\* an entry of a signature page, with and without a "signature" string
EntryWith(s) == JObj({<<"signature", JStr(s)>>})
EntryWithout == JObj({})

\* lines 56, 61: tx.get("signature").and_then(as_str)
Signature(tx) == UNION {AsStr(v) : v \in Get(tx, "signature")}

\* line 50: response.get("result").and_then(as_array)
ResultArray(response) == UNION {AsArray(r) : r \in Get(response, "result")}

\* a JSON-RPC response that carries an error object and no result
ErrorResponse == JObj({<<"error", JObj({})>>})

\* the pages the node can answer the next request with: at most limit
\* entries, and an empty page once it has served all it holds
Pages ==
    IF Len(responses) < server.pages
    THEN {p \in SeqsUpTo({EntryWith(s) : s \in server.sigs} \cup {EntryWithout},
                         MaxPage) : Len(p) <= limit}
    ELSE {<<>>}

HistoryResponses == {ErrorResponse} \cup {JObj({<<"result", JArr(p)>>}) : p \in Pages}

\* lines 55-59: the signatures of a page are pushed in page order
RECURSIVE PushSignatures(_, _)
PushSignatures(sigs, result) ==
    IF result = <<>> THEN sigs
    ELSE LET s == Signature(Head(result))
         IN PushSignatures(IF s = {} THEN sigs
                           ELSE Append(sigs, CHOOSE x \in s : TRUE),
                           Tail(result))

\* line 61: result.last(), its signature if it has one
Cursor(result) == Signature(result[Len(result)])

\* a variant of ReachedMax: one more iteration is let through
ReachedMaxLate(i) == i > max_iterations

\* line 67
ReachedMax(i) == i >= max_iterations

\* lines 45-48: send() or json() fails, `?` returns the error
HistTransportError ==
    /\ pc = "history"
    /\ responses' = Append(responses, "failure")
    /\ pc' = "history_err"
    /\ UNCHANGED <<buildVars, graph, findVars, address1, address2, server,
                   call, signatures, before, iteration, signatures1,
                   all_signatures, sigIdx, all_transactions, outcomes,
                   fetched, repeated, exit>>

\* lines 50, 62-64, 73: the response has no result array; the loop is
\* left and what was collected is returned
HistNoResult ==
    /\ pc = "history"
    /\ \E response \in HistoryResponses : ResultArray(response) = {}
    /\ responses' = Append(responses, "no_result")
    /\ pc' = "history_ok"
    /\ UNCHANGED <<buildVars, graph, findVars, address1, address2, server,
                   call, signatures, before, iteration, signatures1,
                   all_signatures, sigIdx, all_transactions, outcomes,
                   fetched, repeated, exit>>

\* lines 51-53, 73: an empty page
HistEmptyPage ==
    /\ pc = "history"
    /\ \E response \in HistoryResponses : ResultArray(response) = {<<>>}
    /\ responses' = Append(responses, "empty")
    /\ pc' = "history_ok"
    /\ UNCHANGED <<buildVars, graph, findVars, address1, address2, server,
                   call, signatures, before, iteration, signatures1,
                   all_signatures, sigIdx, all_transactions, outcomes,
                   fetched, repeated, exit>>

\* lines 55-61, 66-69: a page with entries
HistPage ==
    /\ pc = "history"
    /\ \E response \in HistoryResponses : \E result \in ResultArray(response) :
          /\ result # <<>>
          /\ signatures' = PushSignatures(signatures, result)
          /\ before' = Cursor(result)
          /\ LET new == PushSignatures(<<>>, result)
                 twice == {s \in Range(new) :
                              Cardinality({i \in 1..Len(new) : new[i] = s}) > 1}
             IN /\ fetched' = fetched \cup Range(new)
                /\ repeated' = repeated \cup (Range(new) \cap fetched) \cup twice
    /\ iteration' = iteration + 1
    /\ responses' = Append(responses, "page")
    /\ pc' = IF ReachedMax(iteration') THEN "history_ok" ELSE "history"
    /\ UNCHANGED <<buildVars, graph, findVars, address1, address2, server,
                   call, signatures1, all_signatures, sigIdx,
                   all_transactions, outcomes, exit>>

NextHistory == HistTransportError \/ HistNoResult \/ HistEmptyPage \/ HistPage

\* a node that holds more pages than the ceiling lets through, all of one
\* signature
LongHistory == [sigs |-> {1}, pages |-> max_iterations + 1]

\* get_transaction_history is entered for an address with a long history
InitHistory ==
    /\ address1 \in Addr /\ address2 = address1
    /\ server = LongHistory
    /\ call = 1 /\ signatures = <<>> /\ before = {} /\ iteration = 0
    /\ responses = <<>> /\ signatures1 = <<>> /\ all_signatures = <<>>
    /\ sigIdx = 1 /\ all_transactions = <<>> /\ outcomes = <<>>
    /\ fetched = {} /\ repeated = {} /\ exit = "running"
    /\ pc = "history"
    /\ transactions = <<>> /\ txIdx = 1 /\ rcvIdx = 1 /\ graph = EmptyGraph
    /\ FindIdle

SpecHistory == InitHistory /\ [][NextHistory]_vars

(***************************************************************************)
(* get_transaction_details and main.                                       *)
(***************************************************************************)
\* lines 163-165: the strings of Addr stand for base58 public keys, NoAddr
\* for a string that does not parse as one
is_valid_pubkey(address) == address \in Addr

\* what getConfirmedTransaction can answer with: a result (null for an
\* unknown signature, or a record) or an error object without result
DetailValues == {JNull} \cup {Tx(<<a, b>>) : a \in Addr, b \in Addr}
DetailResponses == {ErrorResponse} \cup {JObj({<<"result", v>>}) : v \in DetailValues}

\* lines 97-101: Ok(result) as a one-element set, Err as the empty set
DetailsOf(response) == Get(response, "result")

\* a variant of PushIfOk: a failed fetch leaves a null record behind
PushAlways(txs, details) ==
    Append(txs, IF details = {} THEN JNull ELSE CHOOSE v \in details : TRUE)

\* lines 195-197: if let Ok(transaction) = ... { all_transactions.push }
PushIfOk(txs, details) ==
    IF details = {} THEN txs ELSE Append(txs, CHOOSE v \in details : TRUE)

\* Vec::sort, by insertion
RECURSIVE InsertSorted(_, _)
InsertSorted(s, x) ==
    IF s = <<>> THEN <<x>>
    ELSE IF x <= Head(s) THEN <<x>> \o s
    ELSE <<Head(s)>> \o InsertSorted(Tail(s), x)

\* a variant of SortSigs: the list is left as it was
Unsorted(s) == s

\* line 185: all_signatures.sort()
RECURSIVE SortSigs(_)
SortSigs(s) == IF s = <<>> THEN <<>> ELSE InsertSorted(SortSigs(Tail(s)), Head(s))

\* line 186: Vec::dedup removes consecutive repeated elements
RECURSIVE Dedup(_)
Dedup(s) ==
    IF Len(s) <= 1 THEN s
    ELSE IF s[1] = s[2] THEN Dedup(Tail(s))
    ELSE <<Head(s)>> \o Dedup(Tail(s))

\* the locals of a get_transaction_history call as it is entered
EnterHistory(n) ==
    /\ call' = n
    /\ signatures' = <<>> /\ before' = {} /\ iteration' = 0   \* lines 23-27
    /\ responses' = <<>>
    /\ pc' = "history"

InitMain ==
    /\ address1 \in Addr \cup {NoAddr} /\ address2 \in Addr \cup {NoAddr}
    /\ server = [sigs |-> Sig, pages |-> MaxPages]
    /\ call = 0 /\ signatures = <<>> /\ before = {} /\ iteration = 0
    /\ responses = <<>> /\ signatures1 = <<>> /\ all_signatures = <<>>
    /\ sigIdx = 1 /\ all_transactions = <<>> /\ outcomes = <<>>
    /\ fetched = {} /\ repeated = {} /\ exit = "running"
    /\ pc = "main"
    /\ transactions = <<>> /\ txIdx = 1 /\ rcvIdx = 1 /\ graph = EmptyGraph
    /\ FindIdle

\* lines 175-178
MainInvalid ==
    /\ pc = "main"
    /\ ~is_valid_pubkey(address1) \/ ~is_valid_pubkey(address2)
    /\ pc' = "exit" /\ exit' = "Ok"
    /\ UNCHANGED <<buildVars, graph, findVars, address1, address2, server,
                   historyVars, signatures1, all_signatures, sigIdx,
                   all_transactions, outcomes, fetched, repeated>>

\* line 180: the first call is entered
MainFirstCall ==
    /\ pc = "main"
    /\ is_valid_pubkey(address1) /\ is_valid_pubkey(address2)
    /\ EnterHistory(1)
    /\ UNCHANGED <<buildVars, graph, findVars, address1, address2, server,
                   signatures1, all_signatures, sigIdx, all_transactions,
                   outcomes, fetched, repeated, exit>>

\* lines 180, 181: `?` on an Err returns it from main
MainPropagate ==
    /\ pc = "history_err"
    /\ pc' = "exit" /\ exit' = "Err"
    /\ UNCHANGED <<buildVars, graph, findVars, address1, address2, server,
                   historyVars, signatures1, all_signatures, sigIdx,
                   all_transactions, outcomes, fetched, repeated>>

\* lines 180-181: the first call returned Ok, the second is entered
MainSecondCall ==
    /\ pc = "history_ok" /\ call = 1
    /\ signatures1' = signatures
    /\ EnterHistory(2)
    /\ UNCHANGED <<buildVars, graph, findVars, address1, address2, server,
                   all_signatures, sigIdx, all_transactions, outcomes,
                   fetched, repeated, exit>>

\* lines 181-190: the second call returned Ok; both lists are moved into
\* all_signatures, which is sorted and deduplicated
MainMerge ==
    /\ pc = "history_ok" /\ call = 2
    /\ all_signatures' = Dedup(SortSigs(signatures1 \o signatures))
    /\ signatures1' = <<>> /\ signatures' = <<>>
    /\ before' = {} /\ iteration' = 0
    /\ sigIdx' = 1 /\ all_transactions' = <<>>
    /\ pc' = "details"
    /\ UNCHANGED <<buildVars, graph, findVars, address1, address2, server,
                   call, responses, outcomes, fetched, repeated, exit>>

\* lines 191-198 with 76-102: the details of the next signature are
\* requested and a response with a result comes back
MainDetailOk ==
    /\ pc = "details" /\ sigIdx <= Len(all_signatures)
    /\ \E response \in DetailResponses :
          /\ DetailsOf(response) # {}
          /\ all_transactions' = PushIfOk(all_transactions, DetailsOf(response))
          /\ outcomes' = Append(outcomes, [signature |-> all_signatures[sigIdx],
                                           details |-> DetailsOf(response)])
    /\ sigIdx' = sigIdx + 1
    /\ UNCHANGED <<buildVars, graph, pc, findVars, address1, address2, server,
                   historyVars, signatures1, all_signatures, fetched,
                   repeated, exit>>

\* lines 191-198 with 89-94, 99-101: the response has no result; a request
\* that fails in transport gives the same Err
MainDetailErr ==
    /\ pc = "details" /\ sigIdx <= Len(all_signatures)
    /\ \E response \in DetailResponses :
          /\ DetailsOf(response) = {}
          /\ all_transactions' = PushIfOk(all_transactions, DetailsOf(response))
          /\ outcomes' = Append(outcomes, [signature |-> all_signatures[sigIdx],
                                           details |-> DetailsOf(response)])
    /\ sigIdx' = sigIdx + 1
    /\ UNCHANGED <<buildVars, graph, pc, findVars, address1, address2, server,
                   historyVars, signatures1, all_signatures, fetched,
                   repeated, exit>>

\* line 201: build_transaction_graph(&all_transactions) is entered
MainCallBuild ==
    /\ pc = "details" /\ sigIdx > Len(all_signatures)
    /\ transactions' = all_transactions
    /\ txIdx' = 1 /\ rcvIdx' = 1
    /\ graph' = EmptyGraph
    /\ pc' = "build"
    /\ UNCHANGED <<findVars, mainVars>>

\* lines 210-211: find_paths(&graph, address1, address2, 50) is entered
MainCallFind ==
    /\ pc = "built"
    /\ start' = address1 /\ end' = address2 /\ max_depth' = main_max_depth
    /\ queue' = <<[node |-> address1, path |-> InitPath(address1)]>>
    /\ enqueued' = <<address1>>
    /\ paths' = <<>> /\ visited' = {}
    /\ pc' = "loop"
    /\ UNCHANGED <<buildVars, graph, node, path, next_nodes, previous, mainVars>>

\* lines 213-225: the paths are printed and main returns Ok
MainReturn ==
    /\ pc = "done"
    /\ pc' = "exit" /\ exit' = "Ok"
    /\ UNCHANGED <<buildVars, graph, findVars, address1, address2, server,
                   historyVars, signatures1, all_signatures, sigIdx,
                   all_transactions, outcomes, fetched, repeated>>

\* find_paths as main runs it: a queued path holds each address at most
\* once besides start, so with max_depth = 50 and the few addresses of the
\* bounded records line 139 never matches
MainFind ==
    \/ FindMatch \/ FindExpand \/ FindNoEntry \/ FindPush \/ FindSkipVisited
    \/ FindEndExpand \/ FindReturn

NextMain ==
    \/ MainInvalid \/ MainFirstCall \/ MainPropagate \/ MainSecondCall
    \/ MainMerge \/ MainDetailOk \/ MainDetailErr \/ MainCallBuild
    \/ MainCallFind \/ MainReturn
    \/ NextHistory \/ NextBuild \/ MainFind

SpecMain == InitMain /\ [][NextMain]_vars

(***************************************************************************)
(* Properties of build_transaction_graph.                                  *)
(***************************************************************************)
AllAddr == Range(AddrSeq)

Neighbours(g, a) == IF a \in DOMAIN g THEN g[a] ELSE {}

\* the participant list a record carries, if any: its account keys that
\* are addresses
HasParticipants(tx) == AccountKeys(tx) # {}
Participants(tx) == Accounts(CHOOSE k \in AccountKeys(tx) : TRUE)

\* C1: the graph is symmetric, b is a neighbour of a iff a is a neighbour
\* of b, in the returned graph and after every (sender, receiver) pair the
\* build loop has handled.
C1_Symmetry ==
    pc \in {"build", "built"} =>
        \A a \in AllAddr : \A b \in AllAddr :
            b \in Neighbours(graph, a) <=> a \in Neighbours(graph, b)

\* a pair has just been handled, with more receivers of the record to come
C1_Witness ==
    /\ pc = "build" /\ txIdx = 2 /\ rcvIdx = 2
    /\ HasParticipants(CurTx) /\ Len(Participants(CurTx)) = 3
    /\ Cardinality(DOMAIN graph) = 3

\* some record's first participant and one of its other participants
PairOfSomeRecord(a, b) ==
    \E i \in 1..Len(transactions) :
        /\ HasParticipants(transactions[i])
        /\ LET P == Participants(transactions[i]) IN
           \E j \in 2..Len(P) : \/ a = P[1] /\ b = P[j]
                                \/ b = P[1] /\ a = P[j]

\* C2: the edges of the returned graph are exactly the pairs {first
\* participant, other participant} of the records; the record [A, B, C]
\* alone gives A-B and A-C and no B-C.
C2_EdgeSet ==
    pc = "built" =>
        /\ \A a \in AllAddr : \A b \in AllAddr :
              b \in Neighbours(graph, a) <=> PairOfSomeRecord(a, b)
        /\ \A a \in DOMAIN graph : graph[a] # {}
        /\ transactions = ScenarioStar =>
              /\ "B" \in Neighbours(graph, "A") /\ "C" \in Neighbours(graph, "A")
              /\ "C" \notin Neighbours(graph, "B") /\ "B" \notin Neighbours(graph, "C")

C2_Witness ==
    /\ pc = "built" /\ transactions = ScenarioStar
    /\ graph = [x \in {"A", "B", "C"} |-> IF x = "A" THEN {"B", "C"} ELSE {"A"}]

\* the sequences made of the same records: permutations and repetitions
SameRecords(txs) ==
    {s \in SeqsUpTo(Range(txs), Len(txs) + 1) :
        Range(s) = Range(txs) /\ Len(s) >= Len(txs)}

\* C3: the returned graph does not depend on the order of the records nor
\* on how often a record is repeated.
C3_OrderAndRepetition ==
    pc = "built" => \A s \in SameRecords(transactions) : BuildGraph(s) = graph

\* two different records that both add edges at a shared address
C3_Witness ==
    /\ pc = "built" /\ Len(transactions) = 2
    /\ transactions[1] # transactions[2]
    /\ Cardinality(SameRecords(transactions)) > 2
    /\ \E a \in DOMAIN graph : Cardinality(graph[a]) >= 3

\* a record with no participant list, an empty one or one of length one
Degenerate(tx) == ~HasParticipants(tx) \/ Len(Participants(tx)) <= 1

\* C4: processing a record whose participant list is missing, empty or of
\* length one leaves the graph as it was, and a build over only such
\* records returns the empty graph.
C4_DegenerateRecords ==
    /\ [][(pc = "build" /\ txIdx <= Len(transactions) /\ Degenerate(CurTx))
            => graph' = graph]_vars
    /\ []((pc = "built" /\ \A i \in 1..Len(transactions) : Degenerate(transactions[i]))
            => graph = EmptyGraph)

\* a degenerate record of each kind has been passed over, after a record
\* that added edges
C4_Witness ==
    /\ pc = "built" /\ Len(transactions) = 2
    /\ graph # EmptyGraph
    /\ HasParticipants(transactions[2])
    /\ Len(Participants(transactions[2])) = 1
    /\ Len(CHOOSE k \in AccountKeys(transactions[2]) : TRUE) = 2

(***************************************************************************)
(* Properties of find_paths.                                               *)
(***************************************************************************)
\* p is a walk from s to e in g
IsWalk(p, g, s, e) ==
    /\ p # <<>> /\ p[1] = s /\ p[Len(p)] = e
    /\ \A i \in 1..(Len(p) - 1) : p[i + 1] \in Neighbours(g, p[i])

\* the addresses that end a walk from s of at most k nodes in g
RECURSIVE ReachWithin(_, _, _)
ReachWithin(g, s, k) ==
    IF k <= 0 THEN {}
    ELSE IF k = 1 THEN {s}
    ELSE LET R == ReachWithin(g, s, k - 1)
         IN R \cup UNION {Neighbours(g, u) : u \in R}

\* the least number of nodes of a walk from s to e, for e reachable from s
MinNodes(g, s, e) ==
    CHOOSE k \in 1..(Cardinality(DOMAIN g) + 1) :
        e \in ReachWithin(g, s, k) /\ e \notin ReachWithin(g, s, k - 1)

FindRunning == pc \in {"loop", "expand", "done"}
IsCall(txs, s, e, d) ==
    graph = BuildGraph(txs) /\ start = s /\ end = e /\ max_depth = d

\* C5: every path find_paths returns is a walk from start to end: it
\* begins with start, ends with end, and each element is a neighbour of
\* the one before it.
C5_PathsAreWalks ==
    FindRunning => \A i \in 1..Len(paths) : IsWalk(paths[i], graph, start, end)

\* a path of three nodes returned from a start with several neighbours
C5_Witness ==
    /\ pc = "done" /\ paths # <<>> /\ Len(paths[1]) = 3
    /\ Cardinality(graph[start]) >= 2

\* C6: find_paths returns at most one path, whatever the iteration order.
C6_AtMostOnePath == FindRunning => Len(paths) <= 1

\* one path returned although end has two neighbours that were both queued
C6_Witness ==
    /\ pc = "done" /\ Len(paths) = 1 /\ start # end
    /\ \E a \in Range(enqueued) : \E b \in Range(enqueued) :
          a # b /\ a # end /\ b # end /\ {a, b} \subseteq graph[end]

\* C7: no returned path has more than max_depth nodes; the chain
\* A-B-C-D-E searched from A to E with max_depth 3 returns nothing, and a
\* search with max_depth 0 returns nothing.
C7_DepthBound ==
    FindRunning =>
        /\ \A i \in 1..Len(paths) : Len(paths[i]) <= max_depth
        /\ (pc = "done" /\ max_depth = 0) => paths = <<>>
        /\ (pc = "done" /\ IsCall(ScenarioChain5, "A", "E", 3)) => paths = <<>>

\* the chain searched to the end, D having been queued and dropped
C7_Witness ==
    /\ pc = "done" /\ IsCall(ScenarioChain5, "A", "E", 3)
    /\ paths = <<>> /\ "D" \in Range(enqueued)

\* C8: when a walk from start to end of at most max_depth nodes exists,
\* find_paths returns exactly one path and it has the least number of
\* nodes of all such walks; the records [A,B],[B,C],[C,D] searched from A
\* to D with max_depth 10 give [[A,B,C,D]].
C8_ShortestPath ==
    pc = "done" =>
        /\ end \in ReachWithin(graph, start, max_depth) =>
              /\ Len(paths) = 1
              /\ IsWalk(paths[1], graph, start, end)
              /\ Len(paths[1]) = MinNodes(graph, start, end)
        /\ IsCall(ScenarioChain4, "A", "D", 10) => paths = <<<<"A", "B", "C", "D">>>>

\* a shortest path returned where a longer route to end was also open
C8_Witness ==
    /\ pc = "done" /\ IsCall(ScenarioDetour, "A", "E", 10)
    /\ paths = <<<<"A", "C", "E">>>>
    /\ enqueued = <<"A", "B", "C", "A", "D", "E">>

\* C9: when no walk from start to end of at most max_depth edges exists,
\* find_paths returns nothing; the records [A,B],[X,Y] searched from A to Y
\* give nothing.
C9_Unreachable ==
    pc = "done" =>
        /\ end \notin ReachWithin(graph, start, max_depth + 1) => paths = <<>>
        /\ IsCall(ScenarioSplit, "A", "Y", 10) => paths = <<>>

C9_Witness ==
    /\ pc = "done" /\ IsCall(ScenarioSplit, "A", "Y", 10)
    /\ paths = <<>> /\ "B" \in Range(enqueued)

\* C10: find_paths(graph, A, A, k) with k >= 1 returns [[A]]: the path is
\* emitted by the first dequeue, and no neighbour of A is ever expanded.
C10_SelfMatch ==
    (FindRunning /\ start = end /\ max_depth >= 1) =>
        /\ pc # "expand" /\ visited = {} /\ enqueued = <<start>>
        /\ queue = <<>> => paths = <<<<start>>>>
        /\ queue # <<>> => paths = <<>>

C10_Witness ==
    /\ pc = "done" /\ start = end /\ max_depth >= 1
    /\ start \in DOMAIN graph /\ Cardinality(graph[start]) >= 2
    /\ paths = <<<<start>>>>

\* C11 as stated: a search whose start or end is not a key of the graph
\* returns nothing, start = end included.
C11_AbsentGivesNothing ==
    (pc = "done" /\ (start \notin DOMAIN graph \/ end \notin DOMAIN graph))
        => paths = <<>>

\* C11, amended: a search whose start or end is not a key of the graph
\* returns nothing when start # end; when start = end it returns [[start]]
\* for max_depth >= 1 (and nothing for max_depth 0).
C11_AbsentUnlessSelf ==
    (pc = "done" /\ (start \notin DOMAIN graph \/ end \notin DOMAIN graph))
        => paths = IF start = end /\ max_depth >= 1 THEN <<<<start>>>> ELSE <<>>

\* start is no key while end is one, and the search has returned
C11_Witness ==
    /\ pc = "done" /\ start \notin DOMAIN graph /\ end \in DOMAIN graph
    /\ max_depth >= 1 /\ paths = <<>> /\ node = start

\* the number of times a occurs in s
Count(a, s) == Cardinality({i \in 1..Len(s) : s[i] = a})

\* C12: every returned path is simple, no address occurs in it twice.
C12_SimplePaths ==
    FindRunning =>
        \A i \in 1..Len(paths) : \A a \in AllAddr : Count(a, paths[i]) <= 1

\* a path returned over a graph with a self-loop at start, start having
\* been queued a second time
C12_Witness ==
    /\ pc = "done" /\ paths # <<>> /\ Len(paths[1]) = 3
    /\ start \in graph[start] /\ Count(start, enqueued) = 2

\* C17: every address, start included, is placed on the queue at most once
\* during a run.
C17_EnqueuedOnce ==
    FindRunning => \A a \in AllAddr : Count(a, enqueued) <= 1

\* C18: every address that is on the queue or was ever queued is in the
\* visited set.
C18_EnqueuedAreVisited ==
    FindRunning => Range(enqueued) \subseteq visited

\* C19: find_paths terminates: for every graph (cycles, self-loops, start
\* or end not a key) and every max_depth >= 0 the queue eventually becomes
\* empty and paths is returned.
C19_Terminates == <>(pc = "done" /\ queue = <<>>)

\* a search over a graph with a self-loop, in which start was queued a
\* second time, has returned
C19_Witness ==
    /\ pc = "done" /\ queue = <<>>
    /\ \E a \in DOMAIN graph : a \in graph[a] /\ Cardinality(graph[a]) = 3
    /\ Len(enqueued) > Cardinality(DOMAIN graph)

\* C20: two runs of find_paths on the same graph, start, end and max_depth
\* return the same number of paths and, when a path is returned, paths of
\* the same node count with the same first and last address, whatever the
\* two iteration orders; with the same order the results are identical.
C20_OrderIndependence ==
    (pc = "done" /\ previous # <<>>) =>
        LET first == previous[1] IN
        /\ Len(paths) = Len(first.paths)
        /\ \A i \in 1..Len(paths) :
              /\ Len(paths[i]) = Len(first.paths[i])
              /\ paths[i][1] = first.paths[i][1]
              /\ paths[i][Len(paths[i])] = first.paths[i][Len(paths[i])]
        /\ enqueued = first.order => paths = first.paths

\* two runs over the diamond A-B-D, A-C-D that took different routes
C20_Witness ==
    /\ pc = "done" /\ IsCall(ScenarioDiamond, "A", "D", 10)
    /\ previous # <<>>
    /\ previous[1].paths = <<<<"A", "B", "D">>>>
    /\ paths = <<<<"A", "C", "D">>>>

(***************************************************************************)
(* Properties of get_transaction_history and main.                         *)
(***************************************************************************)
\* C15: one call of get_transaction_history issues at most max_iterations
\* (10) page requests and has left its loop once the tenth is answered; no
\* request follows an empty page, or any other response that ends the
\* loop; and what it collects is at most max_iterations pages of
\* signatures, so at most 10,000 when a page holds at most limit (1000)
\* entries.
C15_PageCeiling ==
    /\ Len(responses) <= max_iterations
    /\ \A i \in 1..(Len(responses) - 1) : responses[i] = "page"
    /\ Len(responses) = max_iterations => pc # "history"
    /\ Len(signatures) <= max_iterations * MaxPage
    /\ MaxPage <= limit => Len(signatures) <= max_iterations * limit

\* a call has returned after ten full pages of signatures
C15_Witness ==
    /\ pc = "history_ok"
    /\ Len(responses) = max_iterations
    /\ responses[max_iterations] = "page"
    /\ Len(signatures) = max_iterations * MaxPage

\* the records of the detail requests that came back Ok, in request order
RECURSIVE Successes(_)
Successes(log) ==
    IF log = <<>> THEN <<>>
    ELSE (IF Head(log).details = {} THEN <<>>
          ELSE <<CHOOSE v \in Head(log).details : TRUE>>) \o Successes(Tail(log))

DetailsOver == pc \in {"build", "built", "loop", "expand", "done", "exit"}

\* C13: a failed detail fetch never aborts the run: main returns an error
\* only when no detail was requested yet; while the details are fetched
\* all_transactions holds the results of the successful fetches so far, in
\* order; and once the loop is over every signature of all_signatures was
\* requested, in order, and build_transaction_graph was given exactly the
\* results of the successful fetches, in signature order.
C13_FailedDetailSkipped ==
    /\ exit = "Err" => outcomes = <<>>
    /\ pc = "details" => all_transactions = Successes(outcomes)
    /\ DetailsOver =>
          /\ Len(outcomes) = Len(all_signatures)
          /\ \A i \in 1..Len(outcomes) : outcomes[i].signature = all_signatures[i]
          /\ transactions = Successes(outcomes)

\* the first of two detail fetches failed, the second gave a record, and
\* the run went on to build the graph and find a path in it
C13_Witness ==
    /\ pc = "exit" /\ exit = "Ok"
    /\ Len(outcomes) = 2
    /\ outcomes[1].details = {}
    /\ outcomes[2].details \notin {{}, {JNull}}
    /\ Len(transactions) = 1
    /\ paths # <<>>

\* C14: when the last response of a get_transaction_history call was a
\* failed page request (the transport failed, or the response carries no
\* result array), the call ends with an error and main ends with that
\* error: no signature list is handed back, no detail is requested, no
\* graph is built and no search is run.
C14_PageFailureEndsRun ==
    (responses # <<>> /\ responses[Len(responses)] \in {"failure", "no_result"}) =>
        /\ pc \in {"history_err", "exit"}
        /\ pc = "exit" => exit = "Err"
        /\ outcomes = <<>>

\* C16: the signatures whose detail was requested are strictly ascending,
\* so none is requested twice; each was collected by one of the two
\* history calls; and once the detail loop is over, every collected
\* signature was requested.
C16_EachSignatureOnce ==
    /\ \A i, j \in 1..Len(outcomes) :
          i < j => outcomes[i].signature < outcomes[j].signature
    /\ {outcomes[i].signature : i \in 1..Len(outcomes)} \subseteq fetched
    /\ pc \in {"build", "built", "loop", "expand", "done"} =>
          {outcomes[i].signature : i \in 1..Len(outcomes)} = fetched

\* both signatures were collected more than once, and each detail was
\* requested once
C16_Witness ==
    /\ pc = "done"
    /\ fetched = Sig /\ repeated = Sig
    /\ Len(outcomes) = NumSig
====
